---- MODULE Spec2Model ----
(***************************************************************************)
(* The CtrlS chapter runner (src/src/CtrlS/src/game_engine.py) with the    *)
(* console utilities it calls (src/src/CtrlS/src/utils.py).                *)
(*                                                                         *)
(* The state is the GameEngine object, the position of the single thread   *)
(* of control inside start_game(), the local variables of the frames that  *)
(* are live, and the console transcript (everything printed, every prompt, *)
(* every chapter load and every entry point call, in order).  The chapter  *)
(* modules are the environment: what importlib finds for chapters.ch<n>    *)
(* and what an entry point does once called are chosen nondeterministically*)
(* when the code gets there.                                               *)
(***************************************************************************)
EXTENDS Naturals, Sequences, FiniteSets

VARIABLES
    current_chapter,  \* GameEngine.current_chapter
    max_chapters,     \* GameEngine.max_chapters
    game_state,       \* GameEngine.game_state
    pc,               \* where the thread of control is
    chapter,          \* loop variable of start_game (0 before the loop)
    chapter_module,   \* local of run_chapter: Unbound, None or a loaded unit
    raised,           \* exception that has left start_game ("none" if none)
    output,           \* console transcript and call log
    hookCalls         \* the hooks a caller has invoked directly, in order

vars == <<current_chapter, max_chapters, game_state, pc, chapter,
          chapter_module, raised, output, hookCalls>>

\* self.max_chapters = 5
MaxChaptersInit == 5

\* how many times a caller invokes the two placeholder hooks directly
MaxHookCalls == 2

\* self.game_state as built by __init__
InitialGameState ==
    [player_name |-> "", inventory |-> <<>>, progress |-> <<>>]

----------------------------------------------------------------------------
\* Attribute names of a chapter module.

NoName == [pat |-> "", k |-> 0]

\* 'main'
MainName == [pat |-> "main", k |-> 0]

\* f'chapter_{chapter_num}'
ChapterFn(chapter_num) == [pat |-> "chapter_", k |-> chapter_num]

\* f'ch{chapter_num}_main'
ChMain(chapter_num) == [pat |-> "ch_main", k |-> chapter_num]

\* Another chapter's number: a module may carry names made for a different
\* chapter, which run_chapter does not recognise.
OtherChapter(n) == (n % MaxChaptersInit) + 1

\* The attributes a module loaded as chapter n may expose.
AttrUniverse(n) ==
    {MainName, ChapterFn(n), ChMain(n),
     ChapterFn(OtherChapter(n)), ChMain(OtherChapter(n))}

\* What load_chapter can hand to run_chapter.  import_module returns whatever
\* sits in sys.modules under the chapter's name once the import has run, so
\* the unit is any object the chapter put there: besides its attributes it
\* has a truth value, which is False for an object whose __bool__ says so or
\* for an empty container.  None is false.
None == [kind |-> "None", attrs |-> {}, truthy |-> FALSE]
Unbound == [kind |-> "Unbound", attrs |-> {}, truthy |-> FALSE]
Module(attrs, truthy) == [kind |-> "module", attrs |-> attrs, truthy |-> truthy]

\* bool(chapter_module), as tested by `if not chapter_module`
Truth(module) == module.truthy

\* hasattr(chapter_module, name)
hasattr(module, name) == name \in module.attrs

----------------------------------------------------------------------------
\* Transcript events.

Ev(e, n) == [e |-> e, n |-> n, name |-> NoName, ok |-> FALSE]
InvokeEv(n, name) == [e |-> "invoke", n |-> n, name |-> name, ok |-> FALSE]
ReturnEv(n, ok) == [e |-> "return", n |-> n, name |-> NoName, ok |-> ok]

\* clear_screen()
clear_screen(out) == Append(out, Ev("clear", 0))

\* welcome_message()
welcome_message(out) == Append(out, Ev("welcome", 0))

\* press_enter_to_continue() up to the point where input() blocks;
\* n is the chapter just finished (0 for the prompt before the loop)
PromptShown(out, n) == Append(out, Ev("pause", n))

\* the three banner lines run_chapter prints first
LoadingBanner(out, n) == Append(out, Ev("loading", n))

Init ==
    /\ current_chapter = 1
    /\ max_chapters = MaxChaptersInit
    /\ game_state = InitialGameState
    /\ pc = "NotStarted"
    /\ chapter = 0
    /\ chapter_module = Unbound
    /\ raised = "none"
    /\ output = <<>>
    /\ hookCalls = <<>>

----------------------------------------------------------------------------
\* start_game(), lines 77-79: clear the screen, print the welcome banner,
\* show the first prompt and block in input().
StartGame ==
    /\ pc = "NotStarted"
    /\ output' = PromptShown(welcome_message(clear_screen(output)), 0)
    /\ pc' = "InitialPrompt"
    /\ UNCHANGED <<current_chapter, max_chapters, game_state, chapter,
                   chapter_module, raised, hookCalls>>

\* The user answers the first prompt (input() returns); utils line 32 clears
\* the screen and press_enter_to_continue returns to start_game line 79.
AnswerInitialPrompt ==
    /\ pc = "InitialPrompt"
    /\ output' = clear_screen(output)
    /\ pc' = "LoopHead"
    /\ UNCHANGED <<current_chapter, max_chapters, game_state, chapter,
                   chapter_module, raised, hookCalls>>

\* for chapter in range(1, self.max_chapters + 1): is there a next value?
LoopHasNext == chapter + 1 <= max_chapters

\* Line 82 yields the next chapter number; line 83 prints the "Beginning
\* Chapter" notice; line 85 enters run_chapter, whose lines 42-44 print the
\* loading banner.
NextChapter ==
    /\ pc = "LoopHead"
    /\ LoopHasNext
    /\ chapter' = chapter + 1
    /\ chapter_module' = Unbound
    /\ output' = LoadingBanner(Append(output, Ev("begin", chapter + 1)),
                               chapter + 1)
    /\ pc' = "Load"
    /\ UNCHANGED <<current_chapter, max_chapters, game_state, raised,
                   hookCalls>>

\* Line 82 finds the range exhausted: control falls out of the loop.
LoopExhausted ==
    /\ pc = "LoopHead"
    /\ ~LoopHasNext
    /\ pc' = "Banner"
    /\ UNCHANGED <<current_chapter, max_chapters, game_state, chapter,
                   chapter_module, raised, output, hookCalls>>

----------------------------------------------------------------------------
\* load_chapter(chapter_num), called from run_chapter line 46.

\* import_module returns a module: load_chapter returns it (lines 33-35).
LoadChapterFound ==
    /\ pc = "Load"
    /\ \E attrs \in SUBSET AttrUniverse(chapter), truthy \in BOOLEAN :
          chapter_module' = Module(attrs, truthy)
    /\ output' = Append(output, Ev("load", chapter))
    /\ pc' = "Loaded"
    /\ UNCHANGED <<current_chapter, max_chapters, game_state, chapter,
                   raised, hookCalls>>

\* import_module raises ImportError (no such module, or the module's own
\* imports fail): lines 36-38 print the diagnostic and return None.
LoadChapterImportError ==
    /\ pc = "Load"
    /\ chapter_module' = None
    /\ output' = Append(Append(output, Ev("load", chapter)),
                        Ev("load_error", chapter))
    /\ pc' = "Loaded"
    /\ UNCHANGED <<current_chapter, max_chapters, game_state, chapter,
                   raised, hookCalls>>

\* import_module raises something that is not an ImportError (the module has
\* a syntax error, or its top-level code raises): the except clause of line
\* 36 does not match, so the exception leaves load_chapter, run_chapter and
\* start_game, none of which has another handler.
LoadChapterRaises ==
    /\ pc = "Load"
    /\ output' = Append(output, Ev("load", chapter))
    /\ raised' = "LoadError"
    /\ pc' = "Aborted"
    /\ UNCHANGED <<current_chapter, max_chapters, game_state, chapter,
                   chapter_module, hookCalls>>

----------------------------------------------------------------------------
\* run_chapter(chapter_num) after load_chapter has returned, and the part of
\* start_game's loop body that acts on its result.

\* The if / elif chain of lines 52-58: the name that gets called, NoName
\* when the else branch of line 59 is taken.
SelectEntry(module, chapter_num) ==
    IF hasattr(module, MainName) THEN MainName
    ELSE IF hasattr(module, ChapterFn(chapter_num)) THEN ChapterFn(chapter_num)
    ELSE IF hasattr(module, ChMain(chapter_num)) THEN ChMain(chapter_num)
    ELSE NoName

\* Variant: the index is stored without the increment.
NextCurrentChapterStale(n) == n

\* self.current_chapter = chapter + 1
NextCurrentChapter(n) == n + 1

\* Variant: `continue` in place of `break` on failure.
AfterRunChapterContinue(success, out) ==
    IF ~success
    THEN /\ output' = Append(out, Ev("error", 0))
         /\ pc' = "LoopHead"
         /\ UNCHANGED current_chapter
    ELSE /\ output' = out
         /\ current_chapter' = chapter + 1
         /\ pc' = "Save"

\* start_game lines 85-91 once run_chapter has returned `success`, `out`
\* being the transcript up to that return: on failure print the error notice
\* and break; on success advance current_chapter and go on to save_progress.
AfterRunChapter(success, out) ==
    IF ~success
    THEN /\ output' = Append(out, Ev("error", 0))
         /\ pc' = "Banner"
         /\ UNCHANGED current_chapter
    ELSE /\ output' = out
         /\ current_chapter' = NextCurrentChapter(chapter)
         /\ pc' = "Save"

\* Lines 47-49: `not chapter_module` holds (load_chapter returned None, or a
\* unit whose truth value is False); print the skip notice and return False.
RunChapterNotLoaded ==
    /\ pc = "Loaded"
    /\ ~Truth(chapter_module)
    /\ AfterRunChapter(FALSE,
          Append(Append(output, Ev("skip", chapter)), ReturnEv(chapter, FALSE)))
    /\ UNCHANGED <<max_chapters, game_state, chapter, chapter_module, raised,
                   hookCalls>>

\* Lines 52-58: one of the three names exists; call it.  Control is now
\* inside the chapter.
RunChapterInvoke ==
    /\ pc = "Loaded"
    /\ Truth(chapter_module)
    /\ SelectEntry(chapter_module, chapter) # NoName
    /\ output' = Append(output,
                        InvokeEv(chapter, SelectEntry(chapter_module, chapter)))
    /\ pc' = "InEntry"
    /\ UNCHANGED <<current_chapter, max_chapters, game_state, chapter,
                   chapter_module, raised, hookCalls>>

\* Lines 59-61: none of the three names exists; print the diagnostic and
\* return False.
RunChapterNoEntry ==
    /\ pc = "Loaded"
    /\ Truth(chapter_module)
    /\ SelectEntry(chapter_module, chapter) = NoName
    /\ AfterRunChapter(FALSE,
          Append(Append(output, Ev("no_main", chapter)),
                 ReturnEv(chapter, FALSE)))
    /\ UNCHANGED <<max_chapters, game_state, chapter, chapter_module, raised,
                   hookCalls>>

\* The entry point returns; run_chapter returns True (line 63).
EntryReturns ==
    /\ pc = "InEntry"
    /\ AfterRunChapter(TRUE, Append(output, ReturnEv(chapter, TRUE)))
    /\ UNCHANGED <<max_chapters, game_state, chapter, chapter_module, raised,
                   hookCalls>>

\* The call of lines 53/56/58 raises (the chapter's code raises, or the name
\* is bound to something that cannot be called): nothing in run_chapter or
\* start_game catches it.
EntryRaises ==
    /\ pc = "InEntry"
    /\ raised' = "EntryError"
    /\ pc' = "Aborted"
    /\ UNCHANGED <<current_chapter, max_chapters, game_state, chapter,
                   chapter_module, output, hookCalls>>

----------------------------------------------------------------------------
\* Variant: the hook records the chapter reached in game_state['progress'].
save_progress_records ==
    /\ game_state' = [game_state EXCEPT
                         !.progress = Append(@, current_chapter)]
    /\ UNCHANGED <<current_chapter, max_chapters, output, raised>>

\* The two placeholder hooks: their bodies are `pass`.
save_progress ==
    UNCHANGED <<current_chapter, max_chapters, game_state, output, raised>>

load_progress ==
    UNCHANGED <<current_chapter, max_chapters, game_state, output, raised>>

\* start_game line 92.
SaveAfterChapter ==
    /\ pc = "Save"
    /\ save_progress
    /\ pc' = "AfterSave"
    /\ UNCHANGED <<chapter, chapter_module, hookCalls>>

\* Variant: the comparison admits the last chapter.
PauseWantedInclusive == chapter <= max_chapters

\* if chapter < self.max_chapters
PauseWanted == chapter < max_chapters

\* Lines 95-96 when the condition holds: show the prompt and block.
PauseBetweenChapters ==
    /\ pc = "AfterSave"
    /\ PauseWanted
    /\ output' = PromptShown(output, chapter)
    /\ pc' = "Pause"
    /\ UNCHANGED <<current_chapter, max_chapters, game_state, chapter,
                   chapter_module, raised, hookCalls>>

\* Line 95 when the condition fails: straight back to the loop head.
NoPauseAfterLast ==
    /\ pc = "AfterSave"
    /\ ~PauseWanted
    /\ pc' = "LoopHead"
    /\ UNCHANGED <<current_chapter, max_chapters, game_state, chapter,
                   chapter_module, raised, output, hookCalls>>

\* The user answers the prompt between two chapters; the screen is cleared.
AnswerPause ==
    /\ pc = "Pause"
    /\ output' = clear_screen(output)
    /\ pc' = "LoopHead"
    /\ UNCHANGED <<current_chapter, max_chapters, game_state, chapter,
                   chapter_module, raised, hookCalls>>

\* Variant: the banner is printed only when no chapter failed.
PrintBannerOnSuccessOnly ==
    /\ pc = "Banner"
    /\ output' = IF \E i \in DOMAIN output : output[i].e = "error"
                 THEN Append(output, Ev("end_game", 0))
                 ELSE Append(Append(output, Ev("banner", 0)),
                             Ev("end_game", 0))
    /\ pc' = "Farewell"
    /\ UNCHANGED <<current_chapter, max_chapters, game_state, chapter,
                   chapter_module, raised, hookCalls>>

\* Lines 99-102: the completion banner, then end_game(), which prints the
\* farewell and blocks in input().
PrintBanner ==
    /\ pc = "Banner"
    /\ output' = Append(Append(output, Ev("banner", 0)), Ev("end_game", 0))
    /\ pc' = "Farewell"
    /\ UNCHANGED <<current_chapter, max_chapters, game_state, chapter,
                   chapter_module, raised, hookCalls>>

\* The user answers the farewell prompt; end_game and start_game return.
AnswerFarewell ==
    /\ pc = "Farewell"
    /\ pc' = "Done"
    /\ UNCHANGED <<current_chapter, max_chapters, game_state, chapter,
                   chapter_module, raised, output, hookCalls>>

\* A caller holding the engine invokes a hook directly, which it can do
\* whenever start_game is not running.
Idle == pc \in {"NotStarted", "Done", "Aborted"}

CallSaveProgress ==
    /\ Idle
    /\ Len(hookCalls) < MaxHookCalls
    /\ save_progress
    /\ hookCalls' = Append(hookCalls, "save_progress")
    /\ UNCHANGED <<pc, chapter, chapter_module>>

CallLoadProgress ==
    /\ Idle
    /\ Len(hookCalls) < MaxHookCalls
    /\ load_progress
    /\ hookCalls' = Append(hookCalls, "load_progress")
    /\ UNCHANGED <<pc, chapter, chapter_module>>

----------------------------------------------------------------------------
Next ==
    \/ StartGame
    \/ AnswerInitialPrompt
    \/ NextChapter
    \/ LoopExhausted
    \/ LoadChapterFound
    \/ LoadChapterImportError
    \/ LoadChapterRaises
    \/ RunChapterNotLoaded
    \/ RunChapterInvoke
    \/ RunChapterNoEntry
    \/ EntryReturns
    \/ EntryRaises
    \/ SaveAfterChapter
    \/ PauseBetweenChapters
    \/ NoPauseAfterLast
    \/ AnswerPause
    \/ PrintBanner
    \/ AnswerFarewell
    \/ CallSaveProgress
    \/ CallLoadProgress

Spec == Init /\ [][Next]_vars

\* The interpreter always runs the next statement; the provisos of the
\* termination claim are that every prompt is answered and that an entry
\* point that was called comes back.
LiveSpec ==
    /\ Spec
    /\ WF_vars(StartGame \/ NextChapter \/ LoopExhausted
                 \/ LoadChapterFound \/ LoadChapterImportError
                 \/ LoadChapterRaises
                 \/ RunChapterNotLoaded \/ RunChapterInvoke
                 \/ RunChapterNoEntry \/ SaveAfterChapter
                 \/ PauseBetweenChapters \/ NoPauseAfterLast \/ PrintBanner)
    /\ WF_vars(AnswerInitialPrompt \/ AnswerPause \/ AnswerFarewell)
    /\ WF_vars(EntryReturns \/ EntryRaises)
----------------------------------------------------------------------------
\* Reading the transcript.

Positions(e) == {i \in DOMAIN output : output[i].e = e}

IsInvoke(ev) == ev.e = "invoke"
IsInvokeOfCurrent(ev) == ev.e = "invoke" /\ ev.n = chapter
IsBetweenPause(ev) == ev.e = "pause" /\ ev.n > 0
IsLoad(ev) == ev.e = "load"

\* The loop has been left: by break (Halted) or by exhaustion (Completed).
LeftLoop == pc \in {"Banner", "Farewell", "Done"}
Halted == LeftLoop /\ Positions("error") # {}
Completed == LeftLoop /\ Positions("error") = {}

\* run_chapter(chapter) has returned a value for the current chapter.
Returned(ok) == \E i \in DOMAIN output : output[i] = ReturnEv(chapter, ok)

\* The recognised names present on the unit loaded for the current chapter.
Recognized ==
    chapter_module.attrs \cap {MainName, ChapterFn(chapter), ChMain(chapter)}

\* The dispatch of run_chapter has acted on the unit loaded for `chapter`.
Dispatched == chapter_module.kind = "module" /\ pc # "Loaded"

----------------------------------------------------------------------------
\* C1: once run_chapter(k) has returned false, nothing more is loaded or
\* invoked in the run (so no chapter above k is ever attempted), and every
\* chapter 1..k-1 had its entry point invoked before that return.
C1_HaltOnFirstFailure ==
    \A i \in DOMAIN output :
        (output[i].e = "return" /\ ~output[i].ok) =>
            /\ \A j \in DOMAIN output :
                   output[j].e \in {"begin", "loading", "load", "invoke"}
                       => (j < i /\ output[j].n <= output[i].n)
            /\ \A m \in 1..(output[i].n - 1) :
                   \E j \in 1..(i - 1) : output[j].e = "invoke" /\ output[j].n = m

\* Chapter 3 of 5 failed to load and the run has ended.
C1_Witness ==
    /\ pc = "Done"
    /\ chapter = 3
    /\ chapter_module = None
    /\ Returned(FALSE)

\* C2: pauses between chapters are numbered 1, 2, ... with no gap and no
\* repeat, each directly after the successful return of the chapter it
\* follows and never after the last chapter; a run in which every chapter
\* succeeded invoked the entry points of 1..max_chapters once each in
\* increasing order and paused exactly max_chapters - 1 times in between.
C2_OrderAndPauses ==
    LET pauses == SelectSeq(output, IsBetweenPause)
        invokes == SelectSeq(output, IsInvoke)
    IN  /\ \A i \in DOMAIN pauses :
               pauses[i].n = i /\ pauses[i].n < max_chapters
        /\ \A i \in DOMAIN output :
               IsBetweenPause(output[i]) =>
                   (i > 1 /\ output[i - 1] = ReturnEv(output[i].n, TRUE))
        /\ \A i \in DOMAIN invokes : invokes[i].n = i
        /\ Completed =>
               /\ Len(invokes) = max_chapters
               /\ Len(pauses) = max_chapters - 1

\* All five chapters succeeded and the run has ended.
C2_Witness ==
    /\ pc = "Done"
    /\ Completed
    /\ Len(SelectSeq(output, IsInvoke)) = 5
    /\ Len(SelectSeq(output, IsBetweenPause)) = 4

\* C3: once run_chapter has dispatched on the unit loaded for chapter n, it
\* has invoked exactly one entry point if the unit has any recognised name
\* (main if present, else chapter_<n> if present, else ch<n>_main) and none
\* if it has no recognised name.
C3_OneEntryByPriority ==
    Dispatched =>
        LET invoked == SelectSeq(output, IsInvokeOfCurrent)
        IN  IF Recognized = {}
            THEN Len(invoked) = 0
            ELSE /\ Len(invoked) = 1
                 /\ invoked[1].name =
                        IF MainName \in chapter_module.attrs
                        THEN MainName
                        ELSE IF ChapterFn(chapter) \in chapter_module.attrs
                        THEN ChapterFn(chapter)
                        ELSE ChMain(chapter)

\* C4: the banner and the farewell sequence each happen at most once; a run
\* that has left the loop and gone past the banner step, Halted or
\* Completed, has printed the banner exactly once, after every run_chapter
\* event, and called end_game exactly once, after the banner; before that
\* step neither has happened.
C4_BannerExactlyOnce ==
    /\ Cardinality(Positions("banner")) <= 1
    /\ Cardinality(Positions("end_game")) <= 1
    /\ pc \in {"Farewell", "Done"} =>
           /\ Halted \/ Completed
           /\ Cardinality(Positions("banner")) = 1
           /\ Cardinality(Positions("end_game")) = 1
           /\ \A b \in Positions("banner") :
                  /\ \A j \in DOMAIN output :
                         output[j].e \in {"loading", "load", "invoke", "return"}
                             => j < b
                  /\ \A g \in Positions("end_game") : b < g
    /\ pc \notin {"Farewell", "Done"} =>
           Positions("banner") = {} /\ Positions("end_game") = {}

\* A run halted by a failing chapter has ended.
C4_Witness ==
    /\ pc = "Done"
    /\ Halted
    /\ Cardinality(Positions("banner")) = 1

\* C5: no exception leaves start_game.
C5_NoExceptionEscapes == raised = "none"

\* C6: every call of load_chapter for the current chapter has come back with
\* a unit, or with None after printing its diagnostic.
C6_LoadChapterReturns ==
    \A i \in DOMAIN output :
        (output[i].e = "load" /\ output[i].n = chapter) =>
            \/ chapter_module.kind = "module"
            \/ /\ chapter_module = None
               /\ i < Len(output)
               /\ output[i + 1] = Ev("load_error", chapter)

\* C7: when run_chapter(n) has returned, its value is true exactly if
\* load_chapter gave a unit that has a recognised name; with no unit the skip
\* notice was printed and no probe diagnostic; with a unit but no recognised
\* name the "no main function" diagnostic was printed; a false return comes
\* with zero entry points invoked.
C7_ReturnValue ==
    /\ (Returned(TRUE) \/ Returned(FALSE)) =>
           /\ Returned(TRUE) <=>
                  (chapter_module.kind = "module" /\ Recognized # {})
           /\ chapter_module = None =>
                  /\ \E i \in Positions("skip") : output[i].n = chapter
                  /\ ~\E i \in Positions("no_main") : output[i].n = chapter
           /\ (chapter_module.kind = "module" /\ Recognized = {}) =>
                  \E i \in Positions("no_main") : output[i].n = chapter
    /\ \A i \in DOMAIN output :
           (output[i].e = "return" /\ ~output[i].ok) =>
               ~\E j \in DOMAIN output :
                    output[j].e = "invoke" /\ output[j].n = output[i].n

\* C8: a step that is a call of save_progress or load_progress, from
\* start_game or directly, raises nothing, prints nothing and leaves
\* current_chapter, max_chapters and game_state as they were.
C8_HooksInert ==
    [][((pc = "Save" /\ pc' = "AfterSave") \/ hookCalls' # hookCalls)
           => UNCHANGED <<current_chapter, max_chapters, game_state, output,
                          raised>>]_vars

\* Both hooks were called directly and save_progress was called by the loop.
C8_Witness ==
    /\ pc = "AfterSave"
    /\ \E i \in DOMAIN hookCalls : hookCalls[i] = "save_progress"
    /\ \E i \in DOMAIN hookCalls : hookCalls[i] = "load_progress"

\* The state part of C9.
C9_StateInv ==
    /\ current_chapter =
           1 + Cardinality({i \in Positions("return") : output[i].ok})
    /\ current_chapter \in 1..(max_chapters + 1)
    /\ pc = "Save" => current_chapter = chapter + 1
    /\ Halted => current_chapter = chapter
    /\ Completed => current_chapter = max_chapters + 1
    /\ game_state = InitialGameState
    /\ max_chapters = MaxChaptersInit

\* C9: in every state current_chapter is 1 plus the number of chapters that
\* returned success, lies in 1..max_chapters+1, is already index+1 when
\* save_progress is called, is k when the run halted on chapter k and
\* max_chapters+1 when all succeeded, and game_state and max_chapters are as
\* constructed; in every step current_chapter does not decrease and changes
\* only on the successful return of the running chapter, to its index + 1.
C9_CurrentChapter ==
    /\ []C9_StateInv
    /\ [][/\ current_chapter' >= current_chapter
          /\ current_chapter' # current_chapter =>
                 (pc = "InEntry" /\ current_chapter' = chapter + 1)]_vars

\* The run halted on chapter 3 after two successes.
C9_Witness ==
    /\ pc = "Done"
    /\ Halted
    /\ chapter = 3
    /\ current_chapter = 3

\* C10: run_chapter is called for 1, 2, ... in order, each index once and at
\* most max_chapters of them, and, with every prompt answered and every
\* entry point that was called returning, the run reaches the farewell
\* prompt.
C10_ReachesFarewell ==
    /\ [](LET loads == SelectSeq(output, IsLoad)
          IN  /\ Len(loads) <= max_chapters
              /\ \A i \in DOMAIN loads : loads[i].n = i)
    /\ <>(raised = "EntryError" \/ pc = "Farewell")
====
